---- MODULE Spec2Model ----
(***************************************************************************)
(* A model of ReShade's hook manager (src/src/HookManager.cpp): the hook   *)
(* table sHooks, the vtable slot table sVTableAddresses, the pending path  *)
(* list sDelayedHookPaths, the deferred export path sExportHookPath, and   *)
(* the operations Install, Uninstall, Find, Call, Register and the two     *)
(* LoadLibrary hooks, executed by threads that interleave wherever the     *)
(* code does not hold sCS.                                                 *)
(*                                                                         *)
(* Strings (export names, paths) are sequences of character codes.         *)
(* Addresses and module handles are naturals, 0 is nullptr.                *)
(***************************************************************************)
EXTENDS Integers, Sequences, FiniteSets, TLC

\* ------------------------------------------------------------------------
\* Bounds of the model
\* ------------------------------------------------------------------------
NumThreads == 2
MaxHooks == 5
MaxPending == 2
\* how often the external primitives (patcher, VirtualProtect) may refuse
MaxFaults == 1
\* how many operations the threads start
MaxOps == 4

Threads == 1..NumThreads

\* ------------------------------------------------------------------------
\* Addresses, handles, strings of the modelled process
\* ------------------------------------------------------------------------
nullptr == 0

\* kernel32's loader entry points and the two load-watch hooks of this module
AddrLoadLibraryA == 1
AddrLoadLibraryW == 2
AddrHookLoadLibraryA == 3
AddrHookLoadLibraryW == 4

\* module handles
hSelf == 1      \* the running (replacement) module
hModA == 2      \* a target module, file "a.dll"
hModA2 == 3     \* another file with the same stem, "sys/A.DLL"
hReal == 4      \* the real module behind the running module's name, "sys/RS.DLL"

Handles == {hSelf, hModA, hModA2, hReal}

\* "Foo", "foo", "Bar", "Baz"
nFoo == <<70, 111, 111>>
nfoo == <<102, 111, 111>>
nBar == <<66, 97, 114>>
nBaz == <<66, 97, 122>>
\* "DXGIDumpJournal"
nDump == <<68, 88, 71, 73, 68, 117, 109, 112, 74, 111, 117, 114, 110, 97, 108>>
\* "DXGIReportAdapterConfiguration"
nReport == <<68, 88, 71, 73, 82, 101, 112, 111, 114, 116, 65, 100, 97, 112, 116, 101, 114, 67, 111, 110, 102, 105, 103, 117, 114, 97, 116, 105, 111, 110>>
\* "DXGID3D10"
nD3D10 == <<68, 88, 71, 73, 68, 51, 68, 49, 48>>
\* "DXGID3D10CreateDevice"
nD3D10Create == <<68, 88, 71, 73, 68, 51, 68, 49, 48, 67, 114, 101, 97, 116, 101, 68, 101, 118, 105, 99, 101>>
\* a null char pointer (no C string holds the code 0)
NullName == <<0>>

\* "a.dll", "sys/A.DLL", "rs.dll", "sys/RS.DLL", ""
pA == <<97, 46, 100, 108, 108>>
pA2 == <<115, 121, 115, 47, 65, 46, 68, 76, 76>>
pSelf == <<114, 115, 46, 100, 108, 108>>
pReal == <<115, 121, 115, 47, 82, 83, 46, 68, 76, 76>>
EmptyPath == <<>>

\* ------------------------------------------------------------------------
\* boost string and path helpers
\* ------------------------------------------------------------------------
ToLower(c) == IF c \in 65..90 THEN c + 32 ELSE c

\* boost::equals
equals(a, b) == a = b

\* boost::iequals
iequals(a, b) ==
    /\ Len(a) = Len(b)
    /\ \A i \in 1..Len(a) : ToLower(a[i]) = ToLower(b[i])

\* boost::starts_with
starts_with(s, prefix) ==
    /\ Len(prefix) <= Len(s)
    /\ SubSeq(s, 1, Len(prefix)) = prefix

IsSeparator(c) == c = 47 \/ c = 92

\* index of the last element of s that is in chars, 0 when there is none
LastIndex(s, chars) ==
    LET hits == {i \in 1..Len(s) : s[i] \in chars}
    IN  IF hits = {} THEN 0 ELSE CHOOSE i \in hits : \A j \in hits : j <= i

\* boost::filesystem::path::filename
filename(p) == SubSeq(p, LastIndex(p, {c \in 1..127 : IsSeparator(c)}) + 1, Len(p))

IsDot(c) == c = 46

\* boost::filesystem::path::stem
stem(p) ==
    LET name == filename(p)
        dot == LastIndex(name, {c \in 1..127 : IsDot(c)})
    IN  IF name = <<46>> \/ name = <<46, 46>> \/ dot = 0
        THEN name
        ELSE SubSeq(name, 1, dot - 1)

\* ------------------------------------------------------------------------
\* The module images of the modelled process: export tables as
\* GetModuleExports returns them, and the files behind the paths
\* ------------------------------------------------------------------------
Sym(address, name, ordinal) == [Address |-> address, Name |-> name, Ordinal |-> ordinal]

\* three sets of images; the first is the scenario "target exports Foo and
\* Bar, replacement exports Foo and Baz"
Images == {"scenario", "denylist", "edge"}

GetModuleExports(handle, img) ==
    IF handle = hSelf THEN
        CASE img = "scenario" -> <<Sym(7, nFoo, 1), Sym(9, nBaz, 2)>>
          [] img = "denylist" -> <<Sym(7, nFoo, 1), Sym(9, nBar, 2), Sym(11, nDump, 3),
                                   Sym(12, nD3D10Create, 4)>>
          [] OTHER -> <<Sym(7, nFoo, 1), Sym(9, nBar, 2), Sym(11, nReport, 3),
                        Sym(12, nD3D10, 4), Sym(13, nFoo, 5)>>
    ELSE IF handle = hModA THEN
        CASE img = "scenario" -> <<Sym(5, nFoo, 1), Sym(6, nBar, 2)>>
          [] img = "denylist" -> <<Sym(5, nFoo, 1), Sym(10, nDump, 2), Sym(14, nD3D10Create, 3),
                                   Sym(6, nBar, 4)>>
          [] OTHER -> <<Sym(nullptr, nFoo, 1), Sym(5, NullName, 2), Sym(14, nfoo, 3),
                        Sym(10, nReport, 4), Sym(15, nD3D10, 5), Sym(6, nBar, 6)>>
    ELSE IF handle = hModA2 THEN
        CASE img = "scenario" -> <<>>
          [] OTHER -> <<Sym(15, nfoo, 1)>>
    ELSE IF handle = hReal THEN
        <<Sym(16, nFoo, 1), Sym(17, nBar, 2)>>
    ELSE <<>>

\* every function address of the process
Addresses == 1..17

\* the file a path names, nullptr when there is none
ModuleOfPath(path) ==
    CASE path = pA -> hModA
      [] path = pA2 -> hModA2
      [] path = pSelf -> hSelf
      [] path = pReal -> hReal
      [] OTHER -> nullptr

\* the path of a module's file
GetModuleFileName(handle) ==
    CASE handle = hSelf -> pSelf
      [] handle = hModA -> pA
      [] handle = hModA2 -> pA2
      [] handle = hReal -> pReal
      [] OTHER -> EmptyPath

GetCurrentModuleHandle == hSelf

\* ------------------------------------------------------------------------
\* Hook (Hook.hpp is not part of the sources: modelled from the spec)
\* ------------------------------------------------------------------------
Hook(target, replacement) ==
    [Target |-> target, Replacement |-> replacement, Trampoline |-> nullptr]

EmptyHook == Hook(nullptr, nullptr)

\* "no-op if the hook is already uninstalled (trampoline is null)"
IsInstalled(hook) == hook.Trampoline # nullptr

\* "if the hook is missing or has no trampoline, logs and returns null"
IsValid(hook) ==
    /\ hook.Target # nullptr
    /\ hook.Replacement # nullptr
    /\ hook.Target # hook.Replacement

\* the value Hook::Call returns: the trampoline
HookCall(hook) == hook.Trampoline

\* the trampoline the patcher reports for a target it redirected
TrampolineOffset == 100
TrampolineOf(target) == target + TrampolineOffset

HookTypes == {"Export", "FunctionHook", "VTableHook"}

\* ------------------------------------------------------------------------
\* State
\* ------------------------------------------------------------------------
VARIABLES
    sHooks,             \* sequence of [first: Hook, second: HookType]
    sVTableAddresses,   \* original pointer -> slot, a function on its keys
    sDelayedHookPaths,  \* sequence of paths
    sExportHookPath,    \* a path, EmptyPath when none
    sExportHookModule,  \* a handle or nullptr
    sCS,                \* the critical section: [owner, count]
    mem,                \* vtable memory: slot -> the pointer it holds
    jmp,                \* the patcher's redirections: address -> replacement, nullptr when none
    off,                \* the redirected addresses whose hook is disabled
    loaded,             \* the handles of the modules loaded in the process
    faults,             \* how often an external primitive refused so far
    ops,                \* how many operations were started so far
    image,              \* which set of module images the process runs with
    pc,                 \* each thread's position
    loc,                \* each thread's locals
    last,               \* the operation that completed last, with the state it started in
    prev,               \* the operation that completed before it
    okInstalls          \* the (t, r) the public Install accepted since the last Uninstall()

shared == <<sHooks, sVTableAddresses, sDelayedHookPaths, sExportHookPath, sExportHookModule,
            mem, jmp, off, loaded>>
vars == <<sHooks, sVTableAddresses, sDelayedHookPaths, sExportHookPath, sExportHookModule,
          sCS, mem, jmp, off, loaded, faults, ops, image, pc, loc, last, prev, okInstalls>>

\* the process state an operation reads and writes, as one value; ext collects
\* the calls of external primitives the running operation made
State(ext) ==
    [hooks |-> sHooks, vt |-> sVTableAddresses, pending |-> sDelayedHookPaths,
     epath |-> sExportHookPath, emod |-> sExportHookModule, mem |-> mem, jmp |-> jmp,
     off |-> off, loaded |-> loaded, faults |-> faults, ext |-> ext]

Commit(S) ==
    /\ sHooks' = S.hooks
    /\ sVTableAddresses' = S.vt
    /\ sDelayedHookPaths' = S.pending
    /\ sExportHookPath' = S.epath
    /\ sExportHookModule' = S.emod
    /\ mem' = S.mem
    /\ jmp' = S.jmp
    /\ off' = S.off
    /\ loaded' = S.loaded
    /\ faults' = S.faults

\* ------------------------------------------------------------------------
\* Find: the first hook of the table with this replacement
\* ------------------------------------------------------------------------
Find(hooks, replacement) ==
    LET hits == {i \in 1..Len(hooks) : hooks[i].first.Replacement = replacement}
    IN  IF hits = {} THEN EmptyHook
        ELSE hooks[CHOOSE i \in hits : \A j \in hits : i <= j].first

\* ------------------------------------------------------------------------
\* Install(target, replacement, method): the strategy, then the append
\* ------------------------------------------------------------------------
\* the switch over the method; ok is the answer of the external primitive
\* (the patcher for FunctionHook, the first VirtualProtect for VTableHook)
\* an external primitive refused
Refused(S) == [S EXCEPT !.faults = @ + 1]

InstallStrategy(S, target, replacement, method, ok) ==
    LET hook == [Hook(target, replacement) EXCEPT !.Trampoline = target]
    IN  CASE method = "Export" ->
               [S |-> S, status |-> "Success", hook |-> hook]
          [] method = "FunctionHook" ->
               LET S1 == [S EXCEPT !.ext = Append(@, <<"Hook::Install", target>>)]
               IN  IF ok
                   THEN [S |-> [S1 EXCEPT !.jmp[target] = replacement, !.off = @ \ {target}],
                         status |-> "Success",
                         hook |-> [hook EXCEPT !.Trampoline = TrampolineOf(target)]]
                   ELSE [S |-> Refused(S1), status |-> "Unknown", hook |-> hook]
          [] OTHER ->
               LET targetAddress == S.vt[target]
                   S1 == [S EXCEPT !.ext = Append(@, <<"VirtualProtect", targetAddress>>)]
               IN  IF ok
                   THEN [S |-> [S1 EXCEPT !.mem[targetAddress] = replacement],
                         status |-> "Success", hook |-> hook]
                   ELSE [S |-> Refused(S1), status |-> "MemoryProtectionFailure", hook |-> hook]

\* sHooks.emplace_back(hook, method)
EmplaceBack(hooks, hook, method) == Append(hooks, [first |-> hook, second |-> method])

Install3(S, target, replacement, method, ok) ==
    LET r == InstallStrategy(S, target, replacement, method, ok)
    IN  IF r.status = "Success"
        THEN [S |-> [r.S EXCEPT !.hooks = EmplaceBack(@, r.hook, method)], ret |-> TRUE]
        ELSE [S |-> r.S, ret |-> FALSE]

\* ------------------------------------------------------------------------
\* Install(targetModule, replacementModule, method): the bulk install
\* ------------------------------------------------------------------------
IsDenylisted(name) ==
    \/ equals(name, nReport)
    \/ equals(name, nDump)
    \/ starts_with(name, nD3D10)

\* std::find_if over the replacement's exports: the first index with this name, 0 for end
FindExport(exports, name) ==
    LET hits == {i \in 1..Len(exports) : equals(exports[i].Name, name)}
    IN  IF hits = {} THEN 0 ELSE CHOOSE i \in hits : \A j \in hits : i <= j

RECURSIVE MatchesFrom(_, _, _)
MatchesFrom(targetExports, replacementExports, i) ==
    IF i > Len(targetExports) THEN <<>>
    ELSE
        LET symbol == targetExports[i]
            it == FindExport(replacementExports, symbol.Name)
            rest == MatchesFrom(targetExports, replacementExports, i + 1)
        IN  IF symbol.Name = NullName \/ symbol.Address = nullptr THEN rest
            ELSE IF it = 0 \/ IsDenylisted(symbol.Name) THEN rest
            ELSE << <<symbol.Address, replacementExports[it].Address>> >> \o rest

Matches(targetModule, replacementModule, img) ==
    MatchesFrom(GetModuleExports(targetModule, img), GetModuleExports(replacementModule, img), 1)

\* mutant: the loop leaves at the first install that fails
RECURSIVE InstallMatchesStopAtFailure(_, _, _, _, _, _)
InstallMatchesStopAtFailure(S, matches, i, method, oks, counter) ==
    IF i > Len(matches) THEN [S |-> S, counter |-> counter]
    ELSE
        LET r == Install3(S, matches[i][1], matches[i][2], method, oks[i])
        IN  IF r.ret
            THEN InstallMatchesStopAtFailure(r.S, matches, i + 1, method, oks, counter + 1)
            ELSE [S |-> r.S, counter |-> counter]

\* the loop over the matches; oks[i] is the patcher's answer for match i
RECURSIVE InstallMatches(_, _, _, _, _, _)
InstallMatches(S, matches, i, method, oks, counter) ==
    IF i > Len(matches) THEN [S |-> S, counter |-> counter]
    ELSE
        LET r == Install3(S, matches[i][1], matches[i][2], method, oks[i])
        IN  InstallMatches(r.S, matches, i + 1, method, oks,
                           IF r.ret THEN counter + 1 ELSE counter)

InstallModule(S, targetModule, replacementModule, method, oks, img) ==
    IF GetModuleExports(targetModule, img) = <<>>
    THEN [S |-> S, ret |-> FALSE, counter |-> 0]
    ELSE
        LET r == InstallMatches(S, Matches(targetModule, replacementModule, img), 1,
                                method, oks, 0)
        IN  [S |-> r.S, ret |-> r.counter # 0, counter |-> r.counter]

\* the answers the patcher may give for the matches of a module pair
Answers(targetModule, replacementModule, img) ==
    [1..Len(Matches(targetModule, replacementModule, img)) -> BOOLEAN]

\* ------------------------------------------------------------------------
\* Uninstall(hook, method) and the loop of Uninstall()
\* ------------------------------------------------------------------------
\* unordered_map::emplace and erase on the slot table
MapEmplace(vt, key, value) ==
    IF key \in DOMAIN vt THEN vt
    ELSE [k \in DOMAIN vt \cup {key} |-> IF k = key THEN value ELSE vt[k]]

MapErase(vt, key) == [k \in DOMAIN vt \ {key} |-> vt[k]]

\* mutant: a removed hook keeps its trampoline
UninstallHookKeepsTrampoline(S, hook, method, ok) ==
    IF ~IsInstalled(hook) \/ method = "Export" THEN [S |-> S, hook |-> hook, ret |-> TRUE]
    ELSE IF ~ok
    THEN [S |-> Refused([S EXCEPT !.ext = Append(@, <<"Hook::Uninstall", hook.Target>>)]),
          hook |-> hook, ret |-> FALSE]
    ELSE IF method = "FunctionHook"
    THEN [S |-> [S EXCEPT !.ext = Append(@, <<"Hook::Uninstall", hook.Target>>),
                          !.jmp[hook.Target] = nullptr, !.off = @ \ {hook.Target}],
          hook |-> hook, ret |-> TRUE]
    ELSE [S |-> [S EXCEPT !.ext = Append(@, <<"VirtualProtect", S.vt[hook.Target]>>),
                          !.mem[S.vt[hook.Target]] = hook.Target,
                          !.vt = MapErase(@, hook.Target)],
          hook |-> hook, ret |-> TRUE]

\* ok is the answer of the external primitive (the patcher's removal for
\* FunctionHook, the first VirtualProtect for VTableHook)
UninstallHook(S, hook, method, ok) ==
    IF ~IsInstalled(hook) THEN [S |-> S, hook |-> hook, ret |-> TRUE]
    ELSE IF method = "Export" THEN [S |-> S, hook |-> hook, ret |-> TRUE]
    ELSE
        LET r ==
              IF method = "FunctionHook" THEN
                  LET S1 == [S EXCEPT !.ext = Append(@, <<"Hook::Uninstall", hook.Target>>)]
                  IN  IF ok
                      THEN [S |-> [S1 EXCEPT !.jmp[hook.Target] = nullptr,
                                             !.off = @ \ {hook.Target}],
                            status |-> "Success"]
                      ELSE [S |-> Refused(S1), status |-> "Unknown"]
              ELSE
                  LET targetAddress == S.vt[hook.Target]
                      S1 == [S EXCEPT !.ext = Append(@, <<"VirtualProtect", targetAddress>>)]
                  IN  IF ok
                      THEN [S |-> [S1 EXCEPT !.mem[targetAddress] = hook.Target,
                                             !.vt = MapErase(@, hook.Target)],
                            status |-> "Success"]
                      ELSE [S |-> Refused(S1), status |-> "MemoryProtectionFailure"]
        IN  IF r.status = "Success"
            THEN [S |-> r.S, hook |-> [hook EXCEPT !.Trampoline = nullptr], ret |-> TRUE]
            ELSE [S |-> r.S, hook |-> hook, ret |-> FALSE]

\* for (auto &it : sHooks) Uninstall(it.first, it.second): the hooks are
\* changed in place; oks[i] is the external primitive's answer for hook i
RECURSIVE UninstallEach(_, _, _)
UninstallEach(S, i, oks) ==
    IF i > Len(S.hooks) THEN S
    ELSE
        LET r == UninstallHook(S, S.hooks[i].first, S.hooks[i].second, oks[i])
        IN  UninstallEach([r.S EXCEPT !.hooks[i].first = r.hook], i + 1, oks)

\* FreeLibrary: the module is released
FreeLibrary(S, handle) ==
    [S EXCEPT !.ext = Append(@, <<"FreeLibrary", handle>>),
              !.loaded = @ \ ({handle} \ {hSelf})]

\* Uninstall(): dropped is the table as the loop left it, right before clear()
UninstallAll(S, oks) ==
    LET S1 == UninstallEach(S, 1, oks)
        S2 == [S1 EXCEPT !.hooks = <<>>]
    IN  [S |-> IF S2.emod # nullptr THEN FreeLibrary(S2, S2.emod) ELSE S2,
         dropped |-> S1.hooks]

\* ------------------------------------------------------------------------
\* Threads: locals, the lock, the completion of an operation
\* ------------------------------------------------------------------------
Snapshot(S) ==
    [hooks |-> S.hooks, vt |-> S.vt, pending |-> S.pending, epath |-> S.epath,
     emod |-> S.emod, mem |-> S.mem, jmp |-> S.jmp, off |-> S.off, loaded |-> S.loaded]

\* a thread's locals while it runs an operation, and the record of a completed one
IdleLoc ==
    [op |-> "", target |-> nullptr, replacement |-> nullptr, slot |-> 0, path |-> EmptyPath,
     kind |-> "", fn |-> nullptr, cont |-> "", hook |-> EmptyHook, ret |-> FALSE,
     addr |-> nullptr, handle |-> nullptr, counter |-> 0, matched |-> FALSE,
     entered |-> FALSE, unlocked |-> FALSE, raced |-> FALSE, stale |-> FALSE,
     bulk |-> FALSE, base |-> 0, answers |-> <<>>, depth |-> 0,
     pre |-> <<>>, post |-> <<>>, ext |-> <<>>, dropped |-> <<>>]

NoLock == [owner |-> 0, count |-> 0]

\* EnterCriticalSection does not block: the section is free or owned by the caller
CanEnter(self) == sCS.owner \in {0, self}

\* another thread is inside its critical section
OtherHolds(self) == sCS.owner \notin {NoLock.owner, self}

\* the lock count of the caller, and the locals with the deepest count n that
\* an EnterCriticalSection of the operation has reached
Held(self) == IF sCS.owner = self THEN sCS.count ELSE 0

Deeper(l, n) == [l EXCEPT !.depth = IF n > @ THEN n ELSE @]

Summary(done) ==
    IF done.op = "Install" /\ done.ret
    THEN [op |-> "Install", target |-> done.target, replacement |-> done.replacement]
    ELSE IF done.op = "Uninstall"
    THEN [op |-> "Uninstall", target |-> nullptr, replacement |-> nullptr]
    ELSE [op |-> "other", target |-> nullptr, replacement |-> nullptr]

\* a step of thread self ends in state S with locals l at position next
Apply(self, S, l, next, cs) ==
    /\ S.faults <= MaxFaults
    /\ pc[self] = "idle" => ops < MaxOps
    /\ ops' = IF pc[self] = "idle" THEN ops + 1 ELSE ops
    /\ Commit(S)
    /\ sCS' = cs
    /\ image' = image
    /\ IF next = "idle"
       THEN /\ pc' = [pc EXCEPT ![self] = "idle"]
            /\ loc' = [loc EXCEPT ![self] = IdleLoc]
            /\ last' = [l EXCEPT !.ext = S.ext, !.post = Snapshot(S), !.cont = ""]
            /\ prev' = Summary(last)
            /\ okInstalls' =
                 IF l.op = "Uninstall" THEN {}
                 ELSE IF l.op = "Install" /\ l.ret
                 THEN okInstalls \cup {<<l.target, l.replacement>>}
                 ELSE okInstalls
       ELSE /\ pc' = [pc EXCEPT ![self] = next]
            /\ loc' = [loc EXCEPT ![self] = [l EXCEPT !.ext = S.ext]]
            /\ UNCHANGED <<last, prev, okInstalls>>

Begin(op) == [IdleLoc EXCEPT !.op = op, !.cont = "return", !.pre = Snapshot(State(<<>>))]

Room(n) == Len(sHooks) + n <= MaxHooks

\* ------------------------------------------------------------------------
\* Install(target, replacement), the public one
\* ------------------------------------------------------------------------
\* where the public Install returns to: its caller, or Register's next line
InstallReturn(l, b) ==
    CASE l.cont = "Register_W" ->
           [l |-> [l EXCEPT !.target = AddrLoadLibraryW, !.replacement = AddrHookLoadLibraryW,
                            !.cont = "Register_rest", !.hook = EmptyHook],
            next |-> "Install_check"]
      [] l.cont = "Register_rest" ->
           [l |-> [l EXCEPT !.hook = EmptyHook], next |-> "Register_rest"]
      [] OTHER ->
           [l |-> [l EXCEPT !.ret = b], next |-> "idle"]

\* mutant: an installed replacement is accepted whatever its target
InstallCheckAnyTarget(l, S) ==
    IF l.target = l.replacement THEN InstallReturn(l, FALSE)
    ELSE
        LET hook == Find(S.hooks, l.replacement)
        IN  IF IsInstalled(hook)
            THEN InstallReturn([l EXCEPT !.hook = hook], TRUE)
            ELSE [l |-> [l EXCEPT !.hook = hook], next |-> "Install_patch"]

\* mutant: no lookup of the replacement before the patch
InstallCheckNoLookup(l, S) ==
    IF l.target = l.replacement THEN InstallReturn(l, FALSE)
    ELSE [l |-> l, next |-> "Install_patch"]

\* mutant: no target == replacement test
InstallCheckNoSelfTest(l, S) ==
    LET hook == Find(S.hooks, l.replacement)
    IN  IF IsInstalled(hook)
        THEN InstallReturn([l EXCEPT !.hook = hook], l.target = hook.Target)
        ELSE [l |-> [l EXCEPT !.hook = hook], next |-> "Install_patch"]

\* lines 410-420: the target == replacement test, then Find under the lock
InstallCheck(l, S) ==
    IF l.target = l.replacement THEN InstallReturn(l, FALSE)
    ELSE
        LET hook == Find(S.hooks, l.replacement)
        IN  IF IsInstalled(hook)
            THEN InstallReturn([l EXCEPT !.hook = hook], l.target = hook.Target)
            ELSE [l |-> [l EXCEPT !.hook = hook], next |-> "Install_patch"]

PublicTargets == {5, 6}
PublicReplacements == {5, 7}

InstallBegin(self, t, r) ==
    /\ pc[self] = "idle"
    /\ Room(1)
    /\ t = r \/ CanEnter(self)
    /\ LET l == [Begin("Install") EXCEPT !.target = t, !.replacement = r]
           R == InstallCheck(l, State(<<>>))
       IN  Apply(self, State(<<>>), IF t = r THEN R.l ELSE Deeper(R.l, Held(self) + 1),
                 R.next, sCS)

InstallCheckStep(self) ==
    /\ pc[self] = "Install_check"
    /\ CanEnter(self)
    /\ LET S == State(loc[self].ext)
           R == InstallCheck(loc[self], S)
       IN  Apply(self, S, Deeper(R.l, Held(self) + 1), R.next, sCS)

\* line 422 into lines 119-159: the patcher runs outside the lock
InstallPatch(self) ==
    /\ pc[self] = "Install_patch"
    /\ \E ok \in BOOLEAN :
         LET l == loc[self]
             r == InstallStrategy(State(l.ext), l.target, l.replacement, "FunctionHook", ok)
             R == InstallReturn(l, FALSE)
         IN  IF r.status = "Success"
             THEN Apply(self, r.S, [l EXCEPT !.hook = r.hook], "Install_append", sCS)
             ELSE Apply(self, r.S, R.l, R.next, sCS)

\* lines 161-170: the append under the lock; stale records that the lookup
\* of InstallCheck no longer holds when the hook is appended
InstallAppend(self) ==
    /\ pc[self] = "Install_append"
    /\ CanEnter(self)
    /\ LET l == loc[self]
           S == State(l.ext)
           R == InstallReturn([l EXCEPT !.stale = @ \/ IsInstalled(Find(S.hooks, l.replacement))],
                              TRUE)
       IN  Apply(self, [S EXCEPT !.hooks = EmplaceBack(@, l.hook, "FunctionHook")],
                 Deeper(R.l, Held(self) + 1), R.next, sCS)

\* ------------------------------------------------------------------------
\* Install(vtable, offset, replacement)
\* ------------------------------------------------------------------------
VSlots == {1, 2}
VReplacements == {7, 8}
\* the pointer the vtable slots hold before any hook
VOriginal == 8

\* mutant: the entry of a slot that already holds the replacement stays
VInstallProbeKeepsEntry(l, S, ok) ==
    LET S1 == [S EXCEPT !.ext = Append(@, <<"VirtualProtect", l.slot>>)]
        l1 == [l EXCEPT !.unlocked = TRUE]
    IN  IF ~ok THEN [S |-> Refused(S1), l |-> [l EXCEPT !.ret = FALSE], next |-> "idle"]
        ELSE
            LET target == S.mem[l.slot]
                S2 == [S1 EXCEPT !.vt = MapEmplace(@, target, l.slot)]
            IN  IF target \in DOMAIN S.vt
                THEN [S |-> S2, l |-> [l1 EXCEPT !.target = target, !.ret = TRUE],
                      next |-> "idle"]
                ELSE IF target # l.replacement
                THEN [S |-> S2, l |-> [l1 EXCEPT !.target = target],
                      next |-> "VInstall_strategy"]
                ELSE [S |-> S2, l |-> [l1 EXCEPT !.target = target, !.ret = FALSE],
                      next |-> "idle"]

\* lines 429-452: the read-only probe, the emplace into the slot table and
\* the tests on its outcome, none of it under the lock
VInstallProbe(l, S, ok) ==
    LET S1 == [S EXCEPT !.ext = Append(@, <<"VirtualProtect", l.slot>>)]
        l1 == [l EXCEPT !.unlocked = TRUE]
    IN  IF ~ok THEN [S |-> Refused(S1), l |-> [l EXCEPT !.ret = FALSE], next |-> "idle"]
        ELSE
            LET target == S.mem[l.slot]
                inserted == target \notin DOMAIN S.vt
                S2 == [S1 EXCEPT !.vt = MapEmplace(@, target, l.slot)]
                key == CHOOSE k \in DOMAIN S2.vt : k = target
            IN  IF ~inserted
                THEN [S |-> S2, l |-> [l1 EXCEPT !.target = target, !.ret = (key = target)],
                      next |-> "idle"]
                ELSE IF target # l.replacement
                THEN [S |-> S2, l |-> [l1 EXCEPT !.target = target],
                      next |-> "VInstall_strategy"]
                ELSE [S |-> [S2 EXCEPT !.vt = MapErase(@, target)],
                      l |-> [l1 EXCEPT !.target = target, !.ret = FALSE], next |-> "idle"]

VInstallBegin(self, slot, r) ==
    /\ pc[self] = "idle"
    /\ Room(1)
    /\ \E ok \in BOOLEAN :
         LET l == [Begin("VInstall") EXCEPT !.slot = slot, !.replacement = r]
             R == VInstallProbe(l, State(<<>>), ok)
         IN  Apply(self, R.S, [R.l EXCEPT !.raced = R.l.unlocked /\ OtherHolds(self)],
                   R.next, sCS)

\* line 440 into lines 140-158, and the rollback of line 446 when it fails
VInstallStrategy(self) ==
    /\ pc[self] = "VInstall_strategy"
    /\ \E ok \in BOOLEAN :
         LET l == loc[self]
             r == InstallStrategy(State(l.ext), l.target, l.replacement, "VTableHook", ok)
         IN  IF r.status = "Success"
             THEN Apply(self, r.S, [l EXCEPT !.hook = r.hook], "VInstall_append", sCS)
             ELSE Apply(self, [r.S EXCEPT !.vt = MapErase(@, l.target)],
                        [l EXCEPT !.ret = FALSE, !.raced = @ \/ OtherHolds(self)],
                        "idle", sCS)

\* lines 161-170 for the vtable hook
VInstallAppend(self) ==
    /\ pc[self] = "VInstall_append"
    /\ CanEnter(self)
    /\ LET l == loc[self]
           S == State(l.ext)
       IN  Apply(self, [S EXCEPT !.hooks = EmplaceBack(@, l.hook, "VTableHook")],
                 Deeper([l EXCEPT !.ret = TRUE], Held(self) + 1), "idle", sCS)

\* ------------------------------------------------------------------------
\* Register(targetPath)
\* ------------------------------------------------------------------------
RegisterPaths == {pA, pA2, pReal, pSelf}

\* GetModuleHandle: the handle of a loaded module, nullptr when it is not loaded
GetModuleHandle(S, path) ==
    IF ModuleOfPath(path) \in S.loaded THEN ModuleOfPath(path) ELSE nullptr

IsDeferred(path) == iequals(stem(path), stem(GetModuleFileName(GetCurrentModuleHandle)))

\* the hooks an operation may add to the table, for the bound on its length
WatchNeed ==
    (IF IsInstalled(Find(sHooks, AddrHookLoadLibraryA)) THEN 0 ELSE 1)
    + (IF IsInstalled(Find(sHooks, AddrHookLoadLibraryW)) THEN 0 ELSE 1)

MatchCount(handle) ==
    IF handle = nullptr THEN 0 ELSE Len(Matches(handle, GetCurrentModuleHandle, image))

\* lines 372-373: the two installs of the load-watch hooks come first
RegisterBegin(self, path) ==
    /\ pc[self] = "idle"
    /\ Room(WatchNeed + (IF IsDeferred(path) THEN 0 ELSE MatchCount(ModuleOfPath(path))))
    /\ IsDeferred(path) \/ ModuleOfPath(path) \in loaded \/ Len(sDelayedHookPaths) < MaxPending
    /\ CanEnter(self)
    /\ LET l == [Begin("Register") EXCEPT !.path = path, !.target = AddrLoadLibraryA,
                                          !.replacement = AddrHookLoadLibraryA,
                                          !.cont = "Register_W"]
           R == InstallCheck(l, State(<<>>))
       IN  Apply(self, State(<<>>), Deeper(R.l, Held(self) + 1), R.next, sCS)

\* lines 375-402; the writes of sExportHookPath and sDelayedHookPaths are
\* made without the lock, the bulk install takes it for each append
RegisterRest(self) ==
    /\ pc[self] = "Register_rest"
    /\ LET l == [loc[self] EXCEPT !.target = nullptr, !.replacement = nullptr]
           S == State(l.ext)
           replacementModule == GetCurrentModuleHandle
           targetModule == GetModuleHandle(S, l.path)
       IN  IF IsDeferred(l.path)
           THEN Apply(self, [S EXCEPT !.epath = l.path],
                      [l EXCEPT !.unlocked = TRUE, !.raced = @ \/ OtherHolds(self)],
                      "idle", sCS)
           ELSE IF targetModule # nullptr
           THEN /\ CanEnter(self)
                /\ \E oks \in Answers(targetModule, replacementModule, image) :
                     LET r == InstallModule(S, targetModule, replacementModule,
                                            "FunctionHook", oks, image)
                     IN  Apply(self, r.S,
                               Deeper([l EXCEPT !.handle = targetModule,
                                                !.counter = r.counter, !.bulk = TRUE,
                                                !.base = Len(S.hooks), !.answers = oks],
                                      IF r.counter > 0 THEN Held(self) + 1 ELSE 0),
                               "idle", sCS)
           ELSE Apply(self, [S EXCEPT !.pending = Append(@, l.path)],
                      [l EXCEPT !.unlocked = TRUE, !.raced = @ \/ OtherHolds(self)],
                      "idle", sCS)

\* ------------------------------------------------------------------------
\* Uninstall() and Find(replacement)
\* ------------------------------------------------------------------------
Uninstall(self) ==
    /\ pc[self] = "idle"
    /\ CanEnter(self)
    /\ \E oks \in [1..Len(sHooks) -> BOOLEAN] :
         LET r == UninstallAll(State(<<>>), oks)
         IN  Apply(self, r.S, Deeper([Begin("Uninstall") EXCEPT !.dropped = r.dropped,
                                                                 !.answers = oks],
                                     Held(self) + 1), "idle", sCS)

FindArgs == {5, 7}

FindCall(self, replacement) ==
    /\ pc[self] = "idle"
    /\ CanEnter(self)
    /\ Apply(self, State(<<>>),
             Deeper([Begin("Find") EXCEPT !.replacement = replacement,
                                          !.hook = Find(sHooks, replacement)],
                    Held(self) + 1), "idle", sCS)

\* ------------------------------------------------------------------------
\* Call(replacement)
\* ------------------------------------------------------------------------
\* the module loader: it fails, or loads the file the path names
LoadResults(path) == {nullptr, ModuleOfPath(path)}

LoadModule(S, handle) == [S EXCEPT !.loaded = @ \cup ({handle} \ {nullptr})]

\* Find(&HookLoadLibraryW).Enable(enable): the patcher switches the redirection
\* of the hook's target; a hook that is not valid is left alone
EnableWatch(S, enable) ==
    LET watch == Find(S.hooks, AddrHookLoadLibraryW)
    IN  IF ~IsValid(watch) THEN S
        ELSE IF enable THEN [S EXCEPT !.off = @ \ {watch.Target}]
        ELSE [S EXCEPT !.off = @ \cup {watch.Target}]

\* a call of the loader entry point fn enters its load-watch hook
Intercepted(S, fn, hookfn) == S.jmp[fn] = hookfn /\ fn \notin S.off

\* where Call returns to: its caller, or HookLoadLibraryA/W, which calls the
\* pointer it got (a null pointer there ends the process)
CallReturn(l, addr) ==
    IF l.cont = "Hook_load"
    THEN [l |-> [l EXCEPT !.addr = addr],
          next |-> IF addr = nullptr THEN "crashed" ELSE "Hook_load"]
    ELSE [l |-> [l EXCEPT !.addr = addr], next |-> "idle"]

\* lines 518-527
CallLookup(l, S) ==
    LET hook == Find(S.hooks, l.fn)
    IN  CallReturn([l EXCEPT !.hook = hook],
                   IF ~IsValid(hook) THEN nullptr ELSE HookCall(hook))

\* lines 494-502: the lock is taken (line 494) and kept to the return, so the
\* Find of line 518 enters it a second time; with a deferred path pending the
\* wide-string load-watch hook is disabled and the load comes next
CallEnter(self, l, S) ==
    IF S.epath # EmptyPath
    THEN [S |-> EnableWatch(S, FALSE), l |-> Deeper(l, Held(self) + 1), next |-> "Call_load",
          cs |-> [owner |-> self, count |-> 1]]
    ELSE LET R == CallLookup(l, S)
         IN  [S |-> S, l |-> Deeper(R.l, Held(self) + 2), next |-> R.next, cs |-> sCS]

\* line 500: assert(sExportHookModule == nullptr), compiled in a debug build
\* only; a failed assertion ends the process inside Call's critical section
Builds == {"debug", "release"}

AssertFails(S) == S.epath # EmptyPath /\ S.emod # nullptr

CallOrAbort(self, l, S, build) ==
    IF build = "debug" /\ AssertFails(S)
    THEN [S |-> S, l |-> Deeper(l, Held(self) + 1), next |-> "crashed",
          cs |-> [owner |-> self, count |-> 1]]
    ELSE CallEnter(self, l, S)

CallNeed == IF sExportHookPath = EmptyPath THEN 0 ELSE MatchCount(ModuleOfPath(sExportHookPath))

CallArgs == {7, 3}

CallBegin(self, replacement) ==
    /\ pc[self] = "idle"
    /\ Room(CallNeed)
    /\ CanEnter(self)
    /\ \E build \in Builds :
         LET R == CallOrAbort(self, [Begin("Call") EXCEPT !.fn = replacement], State(<<>>),
                              build)
         IN  Apply(self, R.S, R.l, R.next, R.cs)

\* lines 503-527, still under the lock: the load, the hook enabled again, the
\* Export bulk install, the lookup. A load-watch hook that is live and could
\* not be disabled is entered by the load and calls Call again, without end.
CallLoad(self) ==
    /\ pc[self] = "Call_load"
    /\ LET l == loc[self]
           S == State(l.ext)
       IN  IF Intercepted(S, AddrLoadLibraryW, AddrHookLoadLibraryW)
           THEN Apply(self, S, l, "crashed", sCS)
           ELSE \E handle \in LoadResults(S.epath) :
                  LET S1 == [LoadModule(S, handle) EXCEPT
                               !.ext = Append(@, <<"LoadLibraryW", S.epath>>),
                               !.emod = handle]
                      S2 == EnableWatch(S1, TRUE)
                      matches == Matches(handle, GetCurrentModuleHandle, image)
                      r == InstallModule([S2 EXCEPT !.epath = EmptyPath], handle,
                                         GetCurrentModuleHandle, "Export",
                                         [i \in 1..Len(matches) |-> TRUE], image)
                      S3 == IF handle # nullptr THEN r.S ELSE S2
                      R == CallLookup([l EXCEPT !.handle = handle, !.bulk = handle # nullptr,
                                                !.counter = r.counter,
                                                !.base = Len(S.hooks),
                                                !.answers = [i \in 1..Len(matches) |-> TRUE]], S3)
                  IN  Apply(self, S3, Deeper(R.l, Held(self) + 1), R.next, NoLock)

\* ------------------------------------------------------------------------
\* A thread of the host calls LoadLibraryA or LoadLibraryW
\* ------------------------------------------------------------------------
LoadPaths == {pA, pA2}
LoadKinds == {"A", "W"}

EntryPoint(kind) == IF kind = "A" THEN AddrLoadLibraryA ELSE AddrLoadLibraryW
WatchHook(kind) == IF kind = "A" THEN AddrHookLoadLibraryA ELSE AddrHookLoadLibraryW

\* the call goes to the loader, or through the redirection into
\* HookLoadLibraryA/W, whose first line (318, 343) is Call(&HookLoadLibraryA/W)
LoadBegin(self, kind, path) ==
    /\ pc[self] = "idle"
    /\ Room(CallNeed + MatchCount(ModuleOfPath(path)))
    /\ LET l == [Begin("Load") EXCEPT !.kind = kind, !.path = path]
           S == State(<<>>)
       IN  IF Intercepted(S, EntryPoint(kind), WatchHook(kind))
           THEN /\ CanEnter(self)
                /\ \E build \in Builds :
                     LET R == CallOrAbort(self, [l EXCEPT !.entered = TRUE,
                                                          !.fn = WatchHook(kind),
                                                          !.cont = "Hook_load"], S, build)
                     IN  Apply(self, R.S, R.l, R.next, R.cs)
           ELSE \E handle \in LoadResults(path) :
                  Apply(self, LoadModule(S, handle), [l EXCEPT !.handle = handle], "idle", sCS)

\* lines 318-323, 343-348: the real loader through the trampoline
HookLoad(self) ==
    /\ pc[self] = "Hook_load"
    /\ \E handle \in LoadResults(loc[self].path) :
         LET l == [loc[self] EXCEPT !.handle = handle, !.bulk = FALSE, !.base = 0,
                                    !.answers = <<>>]
             S == LoadModule(State(l.ext), handle)
         IN  Apply(self, S, l, IF handle = nullptr THEN "idle" ELSE "Hook_scan", sCS)

\* std::find_if over the pending paths: the first index with this stem, 0 for end
FindPending(pending, path) ==
    LET hits == {i \in 1..Len(pending) : iequals(stem(pending[i]), stem(path))}
    IN  IF hits = {} THEN 0 ELSE CHOOSE i \in hits : \A j \in hits : i <= j

\* vector::erase(it)
Erase(seq, i) == SubSeq(seq, 1, i - 1) \o SubSeq(seq, i + 1, Len(seq))

\* lines 325-339, 350-364, under the lock
HookScan(self) ==
    /\ pc[self] = "Hook_scan"
    /\ CanEnter(self)
    /\ LET l == loc[self]
           S == State(l.ext)
           it == FindPending(S.pending, l.path)
       IN  IF it # 0
           THEN \E oks \in Answers(l.handle, GetCurrentModuleHandle, image) :
                  LET r == InstallModule(S, l.handle, GetCurrentModuleHandle,
                                         "FunctionHook", oks, image)
                  IN  Apply(self,
                            IF r.ret THEN [r.S EXCEPT !.pending = Erase(@, it)] ELSE r.S,
                            Deeper([l EXCEPT !.matched = TRUE, !.counter = r.counter,
                                             !.bulk = TRUE, !.base = Len(S.hooks),
                                             !.answers = oks],
                                   Held(self) + (IF r.counter > 0 THEN 2 ELSE 1)),
                            "idle", sCS)
           ELSE Apply(self, S, Deeper(l, Held(self) + 1), "idle", sCS)

\* ------------------------------------------------------------------------
\* The specifications
\* ------------------------------------------------------------------------
EmptyMap == [k \in {} |-> 0]

InitWith(images) ==
    /\ sHooks = <<>>
    /\ sVTableAddresses = EmptyMap
    /\ sDelayedHookPaths = <<>>
    /\ sExportHookPath = EmptyPath
    /\ sExportHookModule = nullptr
    /\ sCS = NoLock
    /\ mem = [s \in VSlots |-> VOriginal]
    /\ jmp = [a \in Addresses |-> nullptr]
    /\ off = {}
    /\ loaded = {hSelf}
    /\ faults = 0
    /\ ops = 0
    /\ image \in images
    /\ pc = [t \in Threads |-> "idle"]
    /\ loc = [t \in Threads |-> IdleLoc]
    /\ last = IdleLoc
    /\ prev = Summary(IdleLoc)
    /\ okInstalls = {}

Step(self) ==
    \/ \E t \in PublicTargets, r \in PublicReplacements : InstallBegin(self, t, r)
    \/ InstallCheckStep(self)
    \/ InstallPatch(self)
    \/ InstallAppend(self)
    \/ \E slot \in VSlots, r \in VReplacements : VInstallBegin(self, slot, r)
    \/ VInstallStrategy(self)
    \/ VInstallAppend(self)
    \/ \E path \in RegisterPaths : RegisterBegin(self, path)
    \/ RegisterRest(self)
    \/ Uninstall(self)
    \/ \E r \in FindArgs : FindCall(self, r)
    \/ \E r \in CallArgs : CallBegin(self, r)
    \/ CallLoad(self)
    \/ \E kind \in LoadKinds, path \in LoadPaths : LoadBegin(self, kind, path)
    \/ HookLoad(self)
    \/ HookScan(self)

\* the operations one after the other, on one thread
MainThread == CHOOSE t \in Threads : TRUE

Init == InitWith({"scenario"})

Next == Step(MainThread)

Spec == Init /\ [][Next]_vars

\* the bulk installs over every set of module images
InitImages == InitWith(Images)

NextBulk ==
    \/ \E path \in RegisterPaths : RegisterBegin(MainThread, path)
    \/ InstallCheckStep(MainThread)
    \/ InstallPatch(MainThread)
    \/ InstallAppend(MainThread)
    \/ RegisterRest(MainThread)
    \/ \E r \in CallArgs : CallBegin(MainThread, r)
    \/ CallLoad(MainThread)
    \/ \E kind \in LoadKinds, path \in LoadPaths : LoadBegin(MainThread, kind, path)
    \/ HookLoad(MainThread)
    \/ HookScan(MainThread)

SpecBulk == InitImages /\ [][NextBulk]_vars

\* the threads interleave wherever the code lets them: one thread registers
\* the modules and forwards a call, the others load a module, and every
\* thread installs hooks
StepThreads(self) ==
    \/ InstallBegin(self, 6, 7)
    \/ InstallCheckStep(self)
    \/ InstallPatch(self)
    \/ InstallAppend(self)
    \/ self # MainThread /\ VInstallBegin(self, 1, 7)
    \/ VInstallStrategy(self)
    \/ VInstallAppend(self)
    \/ self = MainThread /\ \E path \in {pSelf, pA} : RegisterBegin(self, path)
    \/ RegisterRest(self)
    \/ self = MainThread /\ CallBegin(self, 7)
    \/ CallLoad(self)
    \/ self # MainThread /\ LoadBegin(self, "W", pA)
    \/ HookLoad(self)
    \/ HookScan(self)

NextThreads == \E self \in Threads : StepThreads(self)

SpecThreads == Init /\ [][NextThreads]_vars

\* ------------------------------------------------------------------------
\* Properties
\* ------------------------------------------------------------------------
PatcherInstalls(ext) == {i \in 1..Len(ext) : ext[i][1] = "Hook::Install"}

\* C1: once the public Install(t, r) returned true, a Find(r) that follows with
\* no Uninstall() in between returns a hook whose target is t
C1_InstallThenFind ==
    last.op = "Find" =>
        \A pair \in okInstalls :
            pair[2] = last.replacement => last.hook.Target = pair[1]

\* a Find(r) after an accepted Install(t, r), in a table that holds more hooks
C1_Witness ==
    /\ last.op = "Find"
    /\ \E pair \in okInstalls : pair[2] = last.replacement /\ last.hook.Target = pair[1]
    /\ Len(last.pre.hooks) >= 3

\* C2: the public Install(t, r) called again right after it succeeded returns
\* true, does not call the patcher and leaves the table as it was
C2_InstallTwice ==
    (/\ last.op = "Install"
     /\ prev.op = "Install"
     /\ prev.target = last.target
     /\ prev.replacement = last.replacement)
    => /\ last.ret
       /\ PatcherInstalls(last.ext) = {}
       /\ last.post.hooks = last.pre.hooks

\* the second of two equal Install calls, the first of which patched the target
C2_Witness ==
    /\ last.op = "Install"
    /\ prev.op = "Install"
    /\ prev.target = last.target
    /\ prev.replacement = last.replacement
    /\ last.ret
    /\ Len(last.pre.hooks) >= 1

\* C4: Install(t, t) returns false, changes none of the hook table, the slot
\* table, the pending paths and the deferred export path, and calls no patcher
C4_InstallSelf ==
    (last.op = "Install" /\ last.target = last.replacement)
    => /\ ~last.ret
       /\ last.post.hooks = last.pre.hooks
       /\ last.post.vt = last.pre.vt
       /\ last.post.pending = last.pre.pending
       /\ last.post.epath = last.pre.epath
       /\ last.ext = <<>>

\* an Install(t, t) on a table that holds hooks
C4_Witness ==
    /\ last.op = "Install"
    /\ last.target = last.replacement
    /\ ~last.ret
    /\ Len(last.pre.hooks) >= 1

\* C3: when the table tracks r as the replacement of a hook with target t1,
\* the public Install(t2, r) with t2 # t1 returns false and leaves the table
\* unchanged
C3_InstallOtherTarget ==
    (/\ last.op = "Install"
     /\ \E i \in 1..Len(last.pre.hooks) :
            /\ last.pre.hooks[i].first.Replacement = last.replacement
            /\ last.pre.hooks[i].first.Target # last.target)
    => /\ ~last.ret
       /\ last.post.hooks = last.pre.hooks

StillInstalled(dropped) == {i \in 1..Len(dropped) : IsInstalled(dropped[i].first)}

\* C5 as stated: after Uninstall() the table is empty and every hook tracked
\* before the call has its trampoline cleared, whatever its strategy and
\* whatever the primitives answered
C5_UninstallClearsAll ==
    last.op = "Uninstall" =>
        /\ last.post.hooks = <<>>
        /\ StillInstalled(last.dropped) = {}

\* C5: after Uninstall() the table is empty, and a hook tracked before the call
\* has its trampoline cleared unless it is an Export hook or the primitive that
\* removes it refused
C5_UninstallClears ==
    last.op = "Uninstall" =>
        /\ last.post.hooks = <<>>
        /\ Len(last.dropped) = Len(last.pre.hooks)
        /\ \A i \in 1..Len(last.dropped) :
               /\ last.dropped[i].first.Target = last.pre.hooks[i].first.Target
               /\ last.dropped[i].first.Replacement = last.pre.hooks[i].first.Replacement
               /\ IsInstalled(last.dropped[i].first) <=>
                      (last.dropped[i].second = "Export" \/ ~last.answers[i])

\* an Uninstall() that dropped an Export hook with its trampoline still set and
\* a FunctionHook hook with its trampoline cleared
C5_Witness ==
    /\ last.op = "Uninstall"
    /\ last.post.hooks = <<>>
    /\ \E i, j \in 1..Len(last.dropped) :
           /\ last.dropped[i].second = "Export" /\ IsInstalled(last.dropped[i].first)
           /\ last.dropped[j].second = "FunctionHook" /\ ~IsInstalled(last.dropped[j].first)

\* C6: an Uninstall() directly after an Uninstall() changes no shared state and
\* calls no external primitive
C6_UninstallTwice ==
    (last.op = "Uninstall" /\ prev.op = "Uninstall")
    => /\ last.ext = <<>>
       /\ last.post = last.pre

\* C10: with no other slot tracked, a vtable Install that returns true for a
\* slot holding p and a replacement r # p leaves the slot holding r, the slot table with p -> slot
\* and a hook (p, r) in the table; an Uninstall() of that one hook whose
\* protection change succeeds leaves the slot holding p and no entry for p
C10_VTableRoundTrip ==
    /\ (/\ last.op = "VInstall"
        /\ last.ret
        /\ last.replacement # last.pre.mem[last.slot]
        /\ \A k \in DOMAIN last.pre.vt : last.pre.vt[k] = last.slot)
       => LET p == last.pre.mem[last.slot]
          IN  /\ last.post.mem[last.slot] = last.replacement
              /\ p \in DOMAIN last.post.vt
              /\ last.post.vt[p] = last.slot
              /\ \E i \in 1..Len(last.post.hooks) :
                     /\ last.post.hooks[i].first.Target = p
                     /\ last.post.hooks[i].first.Replacement = last.replacement
    /\ (/\ last.op = "Uninstall"
        /\ Len(last.pre.hooks) = 1
        /\ last.pre.hooks[1].second = "VTableHook"
        /\ last.answers[1])
       => LET p == last.pre.hooks[1].first.Target
          IN  /\ last.post.mem[last.pre.vt[p]] = p
              /\ p \notin DOMAIN last.post.vt

\* the target exports a bulk install is to hook: a name, an address, not on
\* the denylist, and an export of the same name in the replacement module
Eligible(targetModule, replacementModule, img) ==
    LET NamedAlike(symbol, other) == other.Name = symbol.Name
        Wanted(symbol) ==
            /\ symbol.Name # NullName
            /\ symbol.Address # nullptr
            /\ symbol.Name \notin {nReport, nDump}
            /\ ~(Len(symbol.Name) >= Len(nD3D10)
                 /\ SubSeq(symbol.Name, 1, Len(nD3D10)) = nD3D10)
            /\ \E j \in 1..Len(GetModuleExports(replacementModule, img)) :
                   NamedAlike(symbol, GetModuleExports(replacementModule, img)[j])
    IN  SelectSeq(GetModuleExports(targetModule, img), Wanted)

\* the addresses of the eligible exports whose install was answered with success
RECURSIVE Kept(_, _, _)
Kept(symbols, oks, i) ==
    IF i > Len(symbols) THEN <<>>
    ELSE (IF oks[i] THEN <<symbols[i].Address>> ELSE <<>>) \o Kept(symbols, oks, i + 1)

AddedTargets(done) ==
    [i \in 1..(Len(done.post.hooks) - done.base) |-> done.post.hooks[done.base + i].first.Target]

\* C7: a bulk install adds one hook per eligible target export whose per-pair
\* install succeeded, in the order of the target's export table, goes on
\* after a failure, and counts exactly the hooks it added
C7_BulkInstallCount ==
    last.bulk =>
        LET symbols == Eligible(last.handle, GetCurrentModuleHandle, image)
        IN  /\ Len(last.answers) = Len(symbols)
            /\ AddedTargets(last) = Kept(symbols, last.answers, 1)
            /\ last.counter = Len(Kept(symbols, last.answers, 1))

\* a bulk install whose first per-pair install failed and whose second succeeded
C7_Witness ==
    /\ last.bulk
    /\ Len(last.answers) = 2
    /\ ~last.answers[1]
    /\ last.answers[2]
    /\ last.counter = 1
    /\ Len(last.post.hooks) = last.base + 1

Tracked(hooks, replacement) == IsInstalled(Find(hooks, replacement))

\* C8: Register(path) of a module that is neither loaded nor the running
\* module installs nothing for its exports and queues the path; a load that
\* returns a module while a pending path has its stem and the watch hook of its
\* entry point is tracked runs the bulk install for the loaded module
C8_RegisterThenLoad ==
    /\ (/\ last.op = "Register"
        /\ ~IsDeferred(last.path)
        /\ ModuleOfPath(last.path) \notin last.post.loaded)
       => /\ ~last.bulk
          /\ \E i \in 1..Len(last.post.pending) : last.post.pending[i] = last.path
    /\ (/\ last.op = "Load"
        /\ last.handle # nullptr
        /\ FindPending(last.pre.pending, last.path) # 0
        /\ FindPending(last.post.pending, last.path) # 0
        /\ Tracked(last.pre.hooks, WatchHook(last.kind))
        /\ Tracked(last.post.hooks, WatchHook(last.kind)))
       => last.matched

\* C9: no public entry point changes the shared state while another thread is
\* inside its critical section, and none appends a hook for a replacement
\* that its own lookup, made in an earlier critical section, had not found
C9_LockedAccess ==
    last.op \in {"Install", "VInstall", "Register", "Uninstall", "Find", "Call"}
    => /\ ~last.raced
       /\ ~last.stale

\* C11: no operation enters the lock while its thread already holds it: the
\* deepest lock count any operation reaches is 1
C11_NoNestedLock ==
    last.depth <= 1

\* the export of the running module that a bulk install pairs with symbol
Counterpart(symbol, img) ==
    LET exports == GetModuleExports(GetCurrentModuleHandle, img)
    IN  exports[FindExport(exports, symbol.Name)].Address

\* C12: a Call that finds the deferred export path set loads it first; when the
\* load succeeds the path is cleared and the Call returns the loaded module's
\* export for a replacement the resolution matched; when it fails the path
\* stays, the table is as before, and a Call made then loads again
C12_LazyResolution ==
    (last.op = "Call" /\ last.pre.epath # EmptyPath)
    => /\ \E i \in 1..Len(last.ext) : last.ext[i] = <<"LoadLibraryW", last.pre.epath>>
       /\ last.handle # nullptr =>
              /\ last.post.epath = EmptyPath
              /\ \A i \in 1..Len(Eligible(last.handle, GetCurrentModuleHandle, image)) :
                     LET symbol == Eligible(last.handle, GetCurrentModuleHandle, image)[i]
                     IN  Counterpart(symbol, image) = last.fn => last.addr = symbol.Address
       /\ last.handle = nullptr =>
              /\ last.post.epath = last.pre.epath
              /\ last.post.hooks = last.pre.hooks

\* C13: a load-watch hook that handled a successful load with a pending stem
\* leaves no pending path of that stem when its bulk install added a hook, and
\* the pending list as it was when it added none; a load that fails or has no
\* pending stem, with no deferred export path to resolve, changes neither the
\* pending list nor the hook table
C13_PendingAfterLoad ==
    last.op = "Load" =>
        /\ (last.entered /\ last.handle # nullptr
                /\ FindPending(last.pre.pending, last.path) # 0)
           => /\ last.matched
              /\ last.counter > 0 => FindPending(last.post.pending, last.path) = 0
              /\ last.counter = 0 => last.post.pending = last.pre.pending
        /\ (last.pre.epath = EmptyPath
                /\ (last.handle = nullptr \/ FindPending(last.pre.pending, last.path) = 0))
           => /\ last.post.pending = last.pre.pending
              /\ last.post.hooks = last.pre.hooks

\* C14: a public Install or a vtable Install that returns false leaves the
\* hook table, the slot table and the slots' memory as they were before the call
C14_FailedInstall ==
    (last.op \in {"Install", "VInstall"} /\ ~last.ret)
    => /\ last.post.hooks = last.pre.hooks
       /\ last.post.vt = last.pre.vt
       /\ last.post.mem = last.pre.mem

\* a vtable Install that had made its slot-table entry when the protection
\* change for the write was refused, with other hooks and entries in place
C14_Witness ==
    /\ last.op = "VInstall"
    /\ ~last.ret
    /\ Len(last.ext) = 2
    /\ last.target \notin DOMAIN last.post.vt
    /\ DOMAIN last.pre.vt # {}
    /\ Len(last.pre.hooks) >= 1

\* C15: a vtable Install on a slot whose pointer is already a key of the slot
\* table adds no entry and no hook and leaves the slots' memory alone, and it
\* returns true only when the key maps to this slot and its hook has this
\* replacement
C15_DuplicateSlot ==
    (/\ last.op = "VInstall"
     /\ last.unlocked
     /\ last.pre.mem[last.slot] \in DOMAIN last.pre.vt)
    => LET p == last.pre.mem[last.slot]
       IN  /\ last.post.vt = last.pre.vt
           /\ last.post.hooks = last.pre.hooks
           /\ last.post.mem = last.pre.mem
           /\ last.ret =>
                  /\ last.pre.vt[p] = last.slot
                  /\ \E i \in 1..Len(last.pre.hooks) :
                         /\ last.pre.hooks[i].first.Target = p
                         /\ last.pre.hooks[i].first.Replacement = last.replacement

\* C16: the hook table never holds two entries with the same replacement
C16_OneHookPerReplacement ==
    \A i, j \in 1..Len(sHooks) :
        i # j => sHooks[i].first.Replacement # sHooks[j].first.Replacement

\* C17: the hook table never holds a hook whose target is its replacement
C17_NoSelfHook ==
    \A i \in 1..Len(sHooks) : sHooks[i].first.Target # sHooks[i].first.Replacement

\* C18: when no primitive has refused anything, an Uninstall() leaves every
\* slot holding the pointer it held before its first hook and the slot table
\* empty
C18_UninstallRestoresSlots ==
    (last.op = "Uninstall" /\ faults = 0)
    => /\ DOMAIN last.post.vt = {}
       /\ \A s \in VSlots : last.post.mem[s] = VOriginal

\* C19: a thread that entered a load-watch hook through its redirection gets
\* a trampoline from Call and does not end on a null pointer, and a Call for a
\* replacement that some target is patched to does not return null
C19_CallFindsLiveHook ==
    /\ \A t \in Threads :
           (pc[t] = "crashed" /\ loc[t].entered /\ sCS.owner # t) => loc[t].addr # nullptr
    /\ (last.op = "Call" /\ last.addr = nullptr)
       => \A a \in Addresses : last.post.jmp[a] # last.fn

\* C20: the assertion of Call holds in every state: while the deferred export
\* path is set, the handle of the export module is null
C20_AssertionHolds ==
    sExportHookPath # EmptyPath => sExportHookModule = nullptr

====
